---------------------------- MODULE Spec2Model ----------------------------
(***************************************************************************)
(* Verification model of the request/response adaptation layer of         *)
(* stac-fastapi (EO-DataHub fork):                                         *)
(*   - api/routes.py   : _wrap_response, sync_to_async, token_exchange,    *)
(*                       extract_headers, create_async_endpoint            *)
(*   - api/models.py   : create_request_model, create_mixed_request_model  *)
(*                                                                         *)
(* Three specifications share the module:                                  *)
(*   SpecWrap    - the pure function _wrap_response over all its inputs    *)
(*   Spec        - the life cycle of requests through an adapted endpoint  *)
(*   SpecCompose - request-model composition at startup                    *)
(***************************************************************************)
EXTENDS Integers, Sequences, FiniteSets, TLC

VARIABLES
    wrap_in,        \* arguments of one _wrap_response call: resp, verb, url
    wrap_out,       \* the response object it returned (NoResponse before)
    endpoint,       \* the endpoint built by create_async_endpoint
    reqs,           \* per request: position in the endpoint coroutine and locals
    compose_in,     \* arguments of one create_*_request_model call
    compose_out,    \* what the call returned or raised
    res_in,         \* resolve_links: the stored link list and the base URL
    res_out,        \* resolve_links: the calls made so far and what they returned
    cl_in,          \* create_links: the base URL and two stored resources
    cl_out,         \* create_links: the links generated for each resource
    conf_in,        \* the configured extensions of the core client
    procs,          \* per process run: the module-level list, the client, its calls
    app,            \* the FastAPI application: router prefix and route table
    routers,        \* the APIRouter of each extension instance
    lp_in,          \* landing page: the request and the catalog state
    lp_out          \* landing page: the links each client family returned

vars == <<wrap_in, wrap_out, endpoint, reqs, compose_in, compose_out,
          res_in, res_out, cl_in, cl_out, conf_in, procs, app, routers,
          lp_in, lp_out>>

wrapVars    == <<wrap_in, wrap_out>>
adapterVars == <<endpoint, reqs>>
composeVars == <<compose_in, compose_out>>
resolveVars == <<res_in, res_out>>
createVars == <<cl_in, cl_out>>
confVars == <<conf_in, procs>>
registerVars == <<app, routers>>
landingVars == <<lp_in, lp_out>>

\* the variables outside the three groups above
restVars == <<resolveVars, createVars, confVars, registerVars, landingVars>>

None == "None"                 \* Python's None
\* no response object has been built
NoResponse == [status_code |-> 0, body |-> <<>>, cache_control |-> None]

(***************************************************************************)
(* routes.py : configuration imported from stac_fastapi.api.settings      *)
(***************************************************************************)
CACHE_CONTROL_CATALOGS_LIST == {"a"}
CACHE_CONTROL_HEADERS == "public, max-age=3600"

HTTP_204_NO_CONTENT == 204

\* A URL path is kept as the list url_path.split("/") returns:
\* "/" is <<"", "">>, "/catalogs" is <<"", "catalogs">>,
\* "/catalogs/" is <<"", "catalogs", "">>, "/catalogs/a/x" is
\* <<"", "catalogs", "a", "x">>.
Paths ==
    { <<"", "">>,
      <<"", "catalogs">>,
      <<"", "catalogs", "">>,
      <<"", "catalogs", "a">>,
      <<"", "catalogs", "a", "collections">>,
      <<"", "catalogs", "b">>,
      <<"", "catalogs", "b", "collections">>,
      <<"", "catalogsa", "a">>,
      <<"", "search">> }

Verbs == {"GET", "POST", "PUT", "DELETE"}

\* Handler results: None, a falsy JSON value and a non-empty JSON value.
Payloads == {"{}", "{id}"}
Results  == Payloads \cup {None}

\* url_path.startswith("/catalogs/")
StartsWithCatalogs(url_path) ==
    /\ Len(url_path) >= 3
    /\ url_path[1] = ""
    /\ url_path[2] = "catalogs"

\* url_path == "/"
IsRootPath(url_path) == url_path = <<"", "">>

\* JSONResponse(content=resp, headers={"cache-control": cc})
JSONResponse(content, cc) ==
    [status_code |-> 200, body |-> <<content>>, cache_control |-> cc]

\* Response(status_code=code, headers={"cache-control": cc}): no content
EmptyResponse(code, cc) ==
    [status_code |-> code, body |-> <<>>, cache_control |-> cc]

\* Faulty variant: the cache override is applied before the None test.
wrap_response_override_first(resp, verb, url_path) ==
    IF verb = "GET" /\ StartsWithCatalogs(url_path)
                    /\ url_path[3] \in CACHE_CONTROL_CATALOGS_LIST
    THEN IF resp # None
         THEN JSONResponse(resp, CACHE_CONTROL_HEADERS)
         ELSE EmptyResponse(HTTP_204_NO_CONTENT, CACHE_CONTROL_HEADERS)
    ELSE IF verb = "GET" /\ IsRootPath(url_path)
    THEN IF resp # None
         THEN JSONResponse(resp, CACHE_CONTROL_HEADERS)
         ELSE EmptyResponse(HTTP_204_NO_CONTENT, CACHE_CONTROL_HEADERS)
    ELSE IF resp # None
    THEN JSONResponse(resp, "max-age=0")
    ELSE EmptyResponse(HTTP_204_NO_CONTENT, "max-age=0")

\* Faulty variant: the allow-list test is dropped, every catalog path is shared.
wrap_response_no_allow_list(resp, verb, url_path) ==
    IF resp # None
    THEN IF verb = "GET" /\ (StartsWithCatalogs(url_path) \/ IsRootPath(url_path))
         THEN JSONResponse(resp, CACHE_CONTROL_HEADERS)
         ELSE JSONResponse(resp, "max-age=0")
    ELSE EmptyResponse(HTTP_204_NO_CONTENT, "max-age=0")

\* Faulty variant: the method is not looked at.
wrap_response_any_verb(resp, verb, url_path) ==
    IF resp # None
    THEN IF StartsWithCatalogs(url_path)
         THEN IF url_path[3] \in CACHE_CONTROL_CATALOGS_LIST
              THEN JSONResponse(resp, CACHE_CONTROL_HEADERS)
              ELSE JSONResponse(resp, "max-age=0")
         ELSE IF IsRootPath(url_path)
              THEN JSONResponse(resp, CACHE_CONTROL_HEADERS)
              ELSE JSONResponse(resp, "max-age=0")
    ELSE EmptyResponse(HTTP_204_NO_CONTENT, "max-age=0")

\* routes.py : _wrap_response
wrap_response(resp, verb, url_path) ==
    IF resp # None
    THEN IF verb = "GET"
         THEN IF StartsWithCatalogs(url_path)
              THEN IF url_path[3] \in CACHE_CONTROL_CATALOGS_LIST
                   THEN JSONResponse(resp, CACHE_CONTROL_HEADERS)
                   ELSE JSONResponse(resp, "max-age=0")
              ELSE IF IsRootPath(url_path)
                   THEN JSONResponse(resp, CACHE_CONTROL_HEADERS)
                   ELSE JSONResponse(resp, "max-age=0")
         ELSE JSONResponse(resp, "max-age=0")
    ELSE EmptyResponse(HTTP_204_NO_CONTENT, "max-age=0")

(***************************************************************************)
(* routes.py : authentication context                                      *)
(***************************************************************************)
\* Python dict.get(key, default) on a dict kept as a function
Get(d, key, default) == IF key \in DOMAIN d THEN d[key] ELSE default

NoClaims == [k \in {} |-> None]

\* Access tokens the identity provider can hand back, with the claims of the
\* JWT and whether its signature would verify.
Tokens == {"jwt_no_claim", "jwt_w1_forged"}

TokenClaims(token) ==
    IF token = "jwt_w1_forged" THEN [workspaces |-> <<"w1">>] ELSE NoClaims

SignatureValid(token) == token # "jwt_w1_forged"

\* Outcomes of requests.post(KEYCLOAK_URL, ...): a response that is not ok,
\* an ok response whose JSON has no access_token, or an ok response with one.
ExchangeResponses ==
    {[ok |-> FALSE, access_token |-> None], [ok |-> TRUE, access_token |-> None]}
        \cup {[ok |-> TRUE, access_token |-> t] : t \in Tokens}

Raised(exc) == [raised |-> exc, value |-> None]
Returned(v) == [raised |-> None, value |-> v]

\* routes.py : token_exchange, given the identity provider's response
token_exchange(response) ==
    IF ~response.ok
    THEN Raised("Exception")
    ELSE Returned(response.access_token)

\* Faulty variant: the signature is verified.
jwt_decode_verify(token) ==
    IF token = None \/ ~SignatureValid(token)
    THEN Raised("DecodeError")
    ELSE Returned(TokenClaims(token))

\* jwt.decode(token, options={"verify_signature": False}, ...)
jwt_decode(token) ==
    IF token = None
    THEN Raised("DecodeError")
    ELSE Returned(TokenClaims(token))

\* Faulty variant: HTTPBearer(auto_error=True) rejects a request without credentials.
bearer_scheme_auto_error(authorization) ==
    IF authorization = None
    THEN Raised("HTTPException")
    ELSE Returned(authorization)

\* routes.py : bearer_scheme = HTTPBearer(auto_error=False)
bearer_scheme(authorization) == Returned(authorization)

UnauthorizedHeaders ==
    [XWorkspaces |-> <<>>, XAuthorized |-> "unauthorized"]

\* Faulty variant: an identity-provider failure is caught and treated as anonymous.
extract_headers_catch(credentials, response) ==
    IF credentials # None
    THEN LET keycloak_token == token_exchange(response)
         IN  IF keycloak_token.raised # None
             THEN Returned(UnauthorizedHeaders)
             ELSE LET decoded_jwt == jwt_decode(keycloak_token.value)
                  IN  IF decoded_jwt.raised # None
                      THEN Returned(UnauthorizedHeaders)
                      ELSE Returned([XWorkspaces |->
                                        Get(decoded_jwt.value, "workspaces", <<>>),
                                     XAuthorized |-> "authorized"])
    ELSE Returned(UnauthorizedHeaders)

\* routes.py : extract_headers; response is what the identity provider
\* answers if it is asked
extract_headers(credentials, response) ==
    IF credentials # None
    THEN LET keycloak_token == token_exchange(response)
         IN  IF keycloak_token.raised # None
             THEN keycloak_token
             ELSE LET decoded_jwt == jwt_decode(keycloak_token.value)
                  IN  IF decoded_jwt.raised # None
                      THEN decoded_jwt
                      ELSE Returned([XWorkspaces |->
                                        Get(decoded_jwt.value, "workspaces", <<>>),
                                     XAuthorized |-> "authorized"])
    ELSE Returned([XWorkspaces |-> <<>>, XAuthorized |-> "unauthorized"])

(***************************************************************************)
(* routes.py : create_async_endpoint and the endpoint coroutine            *)
(***************************************************************************)
\* A handler function: whether inspect.iscoroutinefunction holds of it, and
\* whether calling it hands the work to run_in_threadpool.
Handlers == {[is_coroutine |-> c, threadpool |-> FALSE] : c \in BOOLEAN}

\* The request_model classes create_async_endpoint is given: a subclass of
\* APIRequest, a subclass of pydantic's BaseModel, or neither (dict).
RequestModels == {"APIRequest", "BaseModel", "dict"}

\* Faulty variant: the wrapper calls the function in place on the event loop.
sync_to_async_in_place(func) == [is_coroutine |-> TRUE, threadpool |-> FALSE]

\* routes.py : sync_to_async
sync_to_async(func) == [is_coroutine |-> TRUE, threadpool |-> TRUE]

NoEndpoint == [created |-> FALSE,
               handler |-> [is_coroutine |-> FALSE, threadpool |-> FALSE],
               func |-> [is_coroutine |-> FALSE, threadpool |-> FALSE],
               request_model |-> None,
               shape |-> None]

\* Faulty variant: there is no branch for subclasses of BaseModel.
create_async_endpoint_two_shapes(func, request_model) ==
    LET wrapped == IF ~func.is_coroutine THEN sync_to_async(func) ELSE func
    IN  [created |-> TRUE,
         handler |-> func,
         func |-> wrapped,
         request_model |-> request_model,
         shape |-> IF request_model = "APIRequest" THEN "attribute" ELSE "raw"]

\* routes.py : create_async_endpoint
create_async_endpoint(func, request_model) ==
    LET wrapped == IF ~func.is_coroutine THEN sync_to_async(func) ELSE func
    IN  [created |-> TRUE,
         handler |-> func,
         func |-> wrapped,
         request_model |-> request_model,
         shape |-> IF request_model = "APIRequest" THEN "attribute"
                   ELSE IF request_model = "BaseModel" THEN "payload"
                   ELSE "raw"]

NoCall == [positional |-> <<>>, keywords |-> {}]

\* How each _endpoint calls func: the positional arguments and the keywords.
\* request_data is an instance of request_model in the second _endpoint
\* (annotation request_model) and a plain mapping in the third (annotation
\* Dict[str, Any]).
EndpointCall(shape) ==
    CASE shape = "attribute" ->
            [positional |-> <<>>,
             keywords |-> {"request", "headers", "**request_data.kwargs()"}]
      [] shape = "payload" ->
            [positional |-> <<"request_data: request_model">>,
             keywords |-> {"headers", "request"}]
      [] shape = "raw" ->
            [positional |-> <<"request_data: Dict[str, Any]">>,
             keywords |-> {"headers", "request"}]

MaxRequests == 2
Requests == 1..MaxRequests

\* The requests of the life-cycle specification: method and path.
Targets ==
    { [method |-> "GET",  url_path |-> <<"", "">>],
      [method |-> "POST", url_path |-> <<"", "catalogs", "a">>] }

\* The value of the Authorization header's bearer credential, None if absent
Authorizations == {None, "subject_token"}

NoHeaders == [XWorkspaces |-> <<>>, XAuthorized |-> None]
NotAsked == [ok |-> FALSE, access_token |-> "NotAsked"]

IdleRequest ==
    [pc |-> "idle", method |-> None, url_path |-> <<>>, authorization |-> None,
     idp |-> NotAsked, headers |-> NoHeaders, error |-> None,
     runs_on |-> None, call_headers |-> NoHeaders, call |-> NoCall,
     connected |-> FALSE, dropped_in_flight |-> FALSE,
     result |-> None, response |-> NoResponse, responses |-> 0,
     delivered |-> FALSE]

\* Faulty variant: the drop of the connection cancels the call in flight.
on_disconnect_cancel(req) ==
    [req EXCEPT !.connected = FALSE,
                !.dropped_in_flight = (req.runs_on = "threadpool"),
                !.pc = "cancelled"]

\* The connection drops while _endpoint awaits func. The wrapper of
\* sync_to_async only awaits run_in_threadpool; nothing in the adapter
\* watches the connection, so the call in flight goes on.
on_disconnect(req) ==
    [req EXCEPT !.connected = FALSE,
                !.dropped_in_flight = (req.runs_on = "threadpool")]

CreateAsyncEndpoint ==
    /\ ~endpoint.created
    /\ \E func \in Handlers, request_model \in RequestModels :
          endpoint' = create_async_endpoint(func, request_model)
    /\ UNCHANGED <<reqs, wrapVars, composeVars, restVars>>

\* The transport delivers a request to the route.
Receive(r) ==
    /\ endpoint.created
    /\ reqs[r].pc = "idle"
    /\ \E t \in Targets, a \in Authorizations :
          reqs' = [reqs EXCEPT ![r] =
                      [@ EXCEPT !.pc = "deps", !.method = t.method,
                                !.url_path = t.url_path, !.authorization = a,
                                !.connected = TRUE]]
    /\ UNCHANGED <<endpoint, wrapVars, composeVars, restVars>>

\* The dependencies of _endpoint are resolved: bearer_scheme, then
\* extract_headers. An exception leaves the request without an endpoint call.
ResolveDependencies(r) ==
    /\ reqs[r].pc = "deps"
    /\ LET credentials == bearer_scheme(reqs[r].authorization)
       IN  IF credentials.raised # None
           THEN reqs' = [reqs EXCEPT ![r] =
                            [@ EXCEPT !.pc = "error", !.error = credentials.raised]]
           ELSE \E response \in IF credentials.value = None
                                THEN {NotAsked} ELSE ExchangeResponses :
                  LET headers == extract_headers(credentials.value, response)
                  IN  IF headers.raised # None
                      THEN reqs' = [reqs EXCEPT ![r] =
                                      [@ EXCEPT !.pc = "error", !.idp = response,
                                                !.error = headers.raised]]
                      ELSE reqs' = [reqs EXCEPT ![r] =
                                      [@ EXCEPT !.pc = "endpoint", !.idp = response,
                                                !.headers = headers.value]]
    /\ UNCHANGED <<endpoint, wrapVars, composeVars, restVars>>

\* _endpoint runs up to "await func(...)": the handler starts, on a worker
\* thread if func goes through run_in_threadpool, on the event loop if not.
InvokeHandler(r) ==
    /\ reqs[r].pc = "endpoint"
    /\ reqs' = [reqs EXCEPT ![r] =
                  [@ EXCEPT !.pc = "awaiting",
                            !.runs_on = IF endpoint.func.threadpool
                                        THEN "threadpool" ELSE "event_loop",
                            !.call_headers = reqs[r].headers,
                            !.call = EndpointCall(endpoint.shape)]]
    /\ UNCHANGED <<endpoint, wrapVars, composeVars, restVars>>

\* The client goes away while the handler is in flight.
Disconnect(r) ==
    /\ reqs[r].pc = "awaiting"
    /\ reqs[r].connected
    /\ reqs' = [reqs EXCEPT ![r] = on_disconnect(reqs[r])]
    /\ UNCHANGED <<endpoint, wrapVars, composeVars, restVars>>

\* The worker thread finishes the handler; the coroutine is not resumed yet.
WorkerCompletes(r) ==
    /\ reqs[r].pc = "awaiting"
    /\ reqs[r].runs_on = "threadpool"
    /\ \E result \in {None, "{id}"} :
          reqs' = [reqs EXCEPT ![r] = [@ EXCEPT !.pc = "worker_done",
                                               !.result = result]]
    /\ UNCHANGED <<endpoint, wrapVars, composeVars, restVars>>

\* Faulty variant: the result wrapped is that of whichever worker finished,
\* as if the handler result were kept in a slot shared by the requests.
ResumeEndpoint_shared_result(r) ==
    /\ reqs[r].pc = "worker_done"
    /\ \E other \in Requests :
          /\ reqs[other].pc \in {"worker_done", "responded"}
          /\ reqs' = [reqs EXCEPT ![r] =
                        [@ EXCEPT !.pc = "responded",
                                  !.response = wrap_response(reqs[other].result,
                                                   reqs[r].method, reqs[r].url_path),
                                  !.responses = @ + 1,
                                  !.delivered = reqs[r].connected]]
    /\ UNCHANGED <<endpoint, wrapVars, composeVars, restVars>>

\* The event loop resumes _endpoint after the worker: _wrap_response.
ResumeEndpoint(r) ==
    /\ reqs[r].pc = "worker_done"
    /\ reqs' = [reqs EXCEPT ![r] =
                  [@ EXCEPT !.pc = "responded",
                            !.response = wrap_response(reqs[r].result,
                                             reqs[r].method, reqs[r].url_path),
                            !.responses = @ + 1,
                            !.delivered = reqs[r].connected]]
    /\ UNCHANGED <<endpoint, wrapVars, composeVars, restVars>>

\* A coroutine handler returns on the event loop and _endpoint goes on to
\* _wrap_response in the same step.
CoroutineReturns(r) ==
    /\ reqs[r].pc = "awaiting"
    /\ reqs[r].runs_on = "event_loop"
    /\ \E result \in {None, "{id}"} :
          reqs' = [reqs EXCEPT ![r] =
                      [@ EXCEPT !.pc = "responded", !.result = result,
                                !.response = wrap_response(result,
                                                 reqs[r].method, reqs[r].url_path),
                                !.responses = @ + 1,
                                !.delivered = reqs[r].connected]]
    /\ UNCHANGED <<endpoint, wrapVars, composeVars, restVars>>

(***************************************************************************)
(* models.py : request-model composition                                   *)
(***************************************************************************)
\* Attribute values are kept as strings: "None" is Python's None,
\* "Undefined" is pydantic's Undefined (no default given) and "Ellipsis" is
\* "..." (explicitly required).
Undefined == "Undefined"
Ellipsis  == "Ellipsis"

\* pydantic FieldInfo with the attributes create_request_model reads
FieldInfo(default, alias, ge, le, max_length, regex) ==
    [default |-> default, default_factory |-> None, alias |-> alias,
     alias_priority |-> IF alias = None THEN None ELSE "2",
     title |-> None, description |-> None, const |-> None,
     gt |-> None, ge |-> ge, lt |-> None, le |-> le, multiple_of |-> None,
     min_items |-> None, max_items |-> None, min_length |-> None,
     max_length |-> max_length, regex |-> regex, extra |-> None]

IsOptionalType(t) == t \in {"Optional[int]", "Optional[str]"}

\* pydantic's ModelField built from (type, FieldInfo): a field is required
\* when its default is "..." or when no default is given and the type is not
\* Optional; without a default an Optional field defaults to None.
ModelField(outer_type, field_info) ==
    LET required == \/ field_info.default = Ellipsis
                    \/ (field_info.default = Undefined /\ ~IsOptionalType(outer_type))
    IN  [outer_type_ |-> outer_type,
         required |-> required,
         default |-> IF field_info.default \in {Ellipsis, Undefined}
                     THEN None ELSE field_info.default,
         field_info |-> field_info]

NoFields == [k \in {} |-> None]

\* The request models handed to the composer.
ModelIds == {"IdStr", "IdIntLimit", "ExtA", "ExtB",
             "GetBase", "GetExtA", "GetExtB", "dict"}

\* issubclass(m, APIRequest) / issubclass(m, BaseModel)
IsAPIRequest(m) == m \in {"GetBase", "GetExtA", "GetExtB"}
IsBaseModel(m)  == m \in {"IdStr", "IdIntLimit", "ExtA", "ExtB"}

\* model.__fields__ of a pydantic model, __attrs_attrs__ of an attrs class
Fields(m) ==
    CASE m = "IdStr" ->
           [id |-> ModelField("str",
                      FieldInfo(Undefined, None, None, None, None, None))]
      [] m = "IdIntLimit" ->
           [id |-> ModelField("int",
                      FieldInfo(Undefined, None, None, None, None, None)),
            limit |-> ModelField("int",
                      FieldInfo("10", None, None, None, None, None))]
      [] m = "ExtA" ->
           [id |-> ModelField("int",
                      FieldInfo(Ellipsis, "identifier", "1", None, None, None)),
            limit |-> ModelField("Optional[int]",
                      FieldInfo(Undefined, None, None, "100", None, None))]
      [] m = "ExtB" ->
           [limit |-> ModelField("int",
                      FieldInfo("20", None, "1", "1000", None, None)),
            token |-> ModelField("Optional[str]",
                      FieldInfo(None, None, None, None, "64", "^[a-z]+$"))]
      [] m = "GetBase" ->
           [id |-> ModelField("str",
                      FieldInfo("a", None, None, None, None, None)),
            limit |-> ModelField("int",
                      FieldInfo("10", None, None, None, None, None))]
      [] m = "GetExtA" ->
           [limit |-> ModelField("Optional[int]",
                      FieldInfo("20", None, None, None, None, None)),
            token |-> ModelField("Optional[str]",
                      FieldInfo(None, None, None, None, None, None))]
      [] m = "GetExtB" ->
           [id |-> ModelField("Optional[str]",
                      FieldInfo("b", None, None, None, None, None))]
      [] OTHER -> NoFields

\* Body(default, default_factory=..., alias=..., ...) as built at
\* models.py 52-75 from field_info
Body(field_info) ==
    [default |-> IF field_info.default = Undefined THEN None
                 ELSE field_info.default,
     default_factory |-> field_info.default_factory,
     alias |-> field_info.alias,
     alias_priority |-> field_info.alias_priority,
     title |-> field_info.title,
     description |-> field_info.description,
     const |-> field_info.const,
     gt |-> field_info.gt, ge |-> field_info.ge,
     lt |-> field_info.lt, le |-> field_info.le,
     multiple_of |-> field_info.multiple_of,
     min_items |-> field_info.min_items, max_items |-> field_info.max_items,
     min_length |-> field_info.min_length, max_length |-> field_info.max_length,
     regex |-> field_info.regex, extra |-> field_info.extra]

\* f overridden by g: dict update
Update(f, g) ==
    [k \in DOMAIN f \cup DOMAIN g |-> IF k \in DOMAIN g THEN g[k] ELSE f[k]]

\* for k, v in model.__fields__.items(): fields[k] = (v.outer_type_, body)
FieldsOfModel(m) ==
    [k \in DOMAIN Fields(m) |->
        <<Fields(m)[k].outer_type_, Body(Fields(m)[k].field_info)>>]

\* for model in models: ...   (models.py 49-76 and 103-130)
RECURSIVE CollectFields(_, _)
CollectFields(models, fields) ==
    IF models = <<>>
    THEN fields
    ELSE CollectFields(Tail(models), Update(fields, FieldsOfModel(Head(models))))

\* pydantic create_model(name, **fields, __base__=base_model): the fields of
\* the base, overridden by the given (type, FieldInfo) pairs
create_model(fields, base_model) ==
    Update(Fields(base_model),
           [k \in DOMAIN fields |-> ModelField(fields[k][1], fields[k][2])])

\* Faulty variant: attributes are collected from the last base to the first.
RECURSIVE make_class_last_wins(_)
make_class_last_wins(models) ==
    IF models = <<>>
    THEN NoFields
    ELSE Update(Fields(Head(models)), make_class_last_wins(Tail(models)))

\* attr.make_class(model_name, attrs={}, bases=tuple(models)): attributes
\* are looked up along the MRO, so the first base that has a name gives it
RECURSIVE make_class(_)
make_class(models) ==
    IF models = <<>>
    THEN NoFields
    ELSE Update(make_class(Tail(models)), Fields(Head(models)))

\* extension.get_request_model(request_type) kept in extension_models when
\* it is not None (models.py 35-37)
RECURSIVE ExtensionModels(_)
ExtensionModels(extensions) ==
    IF extensions = <<>>
    THEN <<>>
    ELSE IF Head(extensions) # None
         THEN <<Head(extensions)>> \o ExtensionModels(Tail(extensions))
         ELSE ExtensionModels(Tail(extensions))

\* models = [base_model] + extension_models + mixins
ModelsOf(base_model, extensions, mixins) ==
    <<base_model>> \o ExtensionModels(extensions) \o mixins

All(models, P(_)) == \A i \in 1..Len(models) : P(models[i])

ComposeRaised(exc) ==
    [raised |-> exc, kind |-> None, fields |-> NoFields, path_fields |-> {}]

ComposeReturned(kind, fields, path_fields) ==
    [raised |-> None, kind |-> kind, fields |-> fields,
     path_fields |-> path_fields]

\* Faulty variant: the binding mode is decided by the base model alone.
create_request_model_base_decides(base_model, extensions, mixins) ==
    LET models == ModelsOf(base_model, extensions, mixins)
    IN  IF IsAPIRequest(base_model)
        THEN ComposeReturned("APIRequest", make_class(models), {})
        ELSE IF IsBaseModel(base_model)
        THEN ComposeReturned("BaseModel",
                 create_model(CollectFields(models, NoFields), base_model), {})
        ELSE ComposeRaised("TypeError")

\* models.py : create_request_model
create_request_model(base_model, extensions, mixins) ==
    LET models == ModelsOf(base_model, extensions, mixins)
    IN  IF All(models, IsAPIRequest)
        THEN ComposeReturned("APIRequest", make_class(models), {})
        ELSE IF All(models, IsBaseModel)
        THEN ComposeReturned("BaseModel",
                 create_model(CollectFields(models, NoFields), base_model), {})
        ELSE ComposeRaised("TypeError")

\* Faulty variant: the wrapper is never built, whatever the flag says.
create_mixed_request_model_fragment_only(base_model, extensions, mixins, full) ==
    LET models == ModelsOf(base_model, extensions, mixins)
    IN  IF ~All(models, IsBaseModel)
        THEN ComposeRaised("AttributeError")
        ELSE ComposeReturned("BaseModel",
                 create_model(CollectFields(models, NoFields), base_model), {})

\* models.py : create_mixed_request_model; a model without __fields__ (an
\* attrs class, dict) makes the loop raise AttributeError
create_mixed_request_model(base_model, extensions, mixins, full) ==
    LET models == ModelsOf(base_model, extensions, mixins)
    IN  IF ~All(models, IsBaseModel)
        THEN ComposeRaised("AttributeError")
        ELSE LET temp_model == create_model(CollectFields(models, NoFields),
                                            base_model)
             IN  IF full
                 THEN ComposeReturned("APIRequest", temp_model, {"catalog_path"})
                 ELSE ComposeReturned("BaseModel", temp_model, {})

MaxExtensions == 1
MaxMixins == 1

SeqsUpTo(S, n) == UNION {[1..m -> S] : m \in 0..n}

NotCalled ==
    [fn |-> None, full |-> FALSE,
     out |-> ComposeRaised(None),
     other |-> ComposeRaised("NotCalled")]

CreateRequestModel ==
    /\ compose_out.fn = None
    /\ compose_out' =
          [fn |-> "create_request_model", full |-> FALSE,
           out |-> create_request_model(compose_in.base_model,
                       compose_in.extensions, compose_in.mixins),
           other |-> ComposeRaised("NotCalled")]
    /\ UNCHANGED <<compose_in, wrapVars, adapterVars, restVars>>

CreateMixedRequestModel ==
    /\ compose_out.fn = None
    /\ \E full \in BOOLEAN :
          compose_out' =
              [fn |-> "create_mixed_request_model", full |-> full,
               out |-> create_mixed_request_model(compose_in.base_model,
                           compose_in.extensions, compose_in.mixins, full),
               other |-> ComposeRaised("NotCalled")]
    /\ UNCHANGED <<compose_in, wrapVars, adapterVars, restVars>>

\* create_post_catalog_full_request_model and
\* create_post_catalog_request_model: the same base and extensions are
\* composed a second time with the other value of full
CreateMixedRequestModelOtherShape ==
    /\ compose_out.fn = "create_mixed_request_model"
    /\ compose_out.other.raised = "NotCalled"
    /\ compose_out' =
          [compose_out EXCEPT
              !.other = create_mixed_request_model(compose_in.base_model,
                           compose_in.extensions, compose_in.mixins,
                           ~compose_out.full)]
    /\ UNCHANGED <<compose_in, wrapVars, adapterVars, restVars>>

(***************************************************************************)
(* types/links.py : URLs, filter_links and resolve_links                   *)
(***************************************************************************)
\* A URL is kept as the five components urllib.parse.urlsplit gives; the path
\* is the list path.split("/") returns ("" is <<"">>, "/" is <<"", "">>,
\* "/x/y" is <<"", "x", "y">>, "x/y" is <<"x", "y">>).
Url(scheme, netloc, path, query, fragment) ==
    [scheme |-> scheme, netloc |-> netloc, path |-> path,
     query |-> query, fragment |-> fragment]

EmptyUrl == Url("", "", <<"">>, "", "")

\* "http://" in href or "https://" in href: a substring test on the text
ContainsHttp(href) ==
    \/ (href.scheme \in {"http", "https"} /\ href.netloc # "")
    \/ href.query = "next=http://other/x"

\* urlsplit(href).path, stored back as the href
PathOnly(href) == Url("", "", href.path, "", "")

Last(seq) == seq[Len(seq)]
ButLast(seq) == SubSeq(seq, 1, Len(seq) - 1)

IsAbsolutePath(path) == Len(path) >= 2 /\ path[1] = ""

\* segments[1:-1] = filter(None, segments[1:-1])
DropEmptyInside(segments) ==
    IF Len(segments) <= 2
    THEN segments
    ELSE <<Head(segments)>>
            \o SelectSeq(SubSeq(segments, 2, Len(segments) - 1), LAMBDA x : x # "")
            \o <<Last(segments)>>

\* urllib.parse.urljoin(base, url) for paths without "." and ".." segments
urljoin(base, url) ==
    IF url = EmptyUrl
    THEN base
    ELSE LET scheme == IF url.scheme = "" THEN base.scheme ELSE url.scheme
         IN  IF scheme # base.scheme
             THEN url
             ELSE IF url.netloc # ""
             THEN Url(scheme, url.netloc, url.path, url.query, url.fragment)
             ELSE IF url.path = <<"">>
             THEN Url(scheme, base.netloc, base.path,
                      IF url.query = "" THEN base.query ELSE url.query,
                      url.fragment)
             ELSE LET base_parts == IF Last(base.path) # ""
                                    THEN ButLast(base.path) ELSE base.path
                      segments == IF IsAbsolutePath(url.path)
                                  THEN url.path
                                  ELSE DropEmptyInside(base_parts \o url.path)
                  IN  Url(scheme, base.netloc, segments, url.query, url.fragment)

INFERRED_LINK_RELS ==
    {"self", "item", "parent", "collection", "root", "items", "data", "child"}

\* Faulty variant: "data" is missing from the inferred relations.
filter_links_keeps_data(links) ==
    SelectSeq(links, LAMBDA link : link.rel \notin (INFERRED_LINK_RELS \ {"data"}))

\* links.py : filter_links
filter_links(links) ==
    SelectSeq(links, LAMBDA link : link.rel \notin INFERRED_LINK_RELS)

\* links.py 25-29: the new href of one retained link
resolve_href(href, base_url) ==
    urljoin(base_url, IF ContainsHttp(href) THEN PathOnly(href) ELSE href)

\* links.py : resolve_links, the list it returns
resolve_links(links, base_url) ==
    LET filtered_links == filter_links(links)
    IN  [i \in 1..Len(filtered_links) |->
            [filtered_links[i] EXCEPT !.href = resolve_href(@, base_url)]]

\* links.py : resolve_links, the caller's list after the call: the retained
\* link dicts are the ones updated in place
links_after_resolve(links, base_url) ==
    [i \in 1..Len(links) |->
        IF links[i].rel \notin INFERRED_LINK_RELS
        THEN [links[i] EXCEPT !.href = resolve_href(@, base_url)]
        ELSE links[i]]

\* The base URLs of the service
BaseUrls ==
    { Url("http", "h", <<"", "">>, "", ""),
      Url("http", "h", <<"", "api", "">>, "", "") }

\* hrefs found in stored links
StoredHrefs ==
    { Url("", "", <<"license.txt">>, "", ""),
      Url("", "", <<"items">>, "token=abc", ""),
      Url("", "", <<"doc">>, "", "sec"),
      Url("", "", <<"", "x", "y">>, "", ""),
      Url("", "", <<"cb">>, "next=http://other/x", ""),
      Url("http", "h", <<"", "api", "foo">>, "", ""),
      Url("https", "other", <<"", "x", "y">>, "token=abc", ""),
      Url("", "other", <<"", "x">>, "", ""),
      Url("ftp", "other", <<"", "f">>, "", "") }

\* stored links: one per inferred relation, and every href under two
\* relations that are not inferred
StoredLinks ==
    {[rel |-> r, href |-> Url("http", "old", <<"", r>>, "", "")] :
        r \in INFERRED_LINK_RELS}
    \cup {[rel |-> r, href |-> h] : r \in {"license", "next"}, h \in StoredHrefs}

MaxLinks == 2

NoCalls == [calls |-> 0, links |-> <<>>, first |-> <<>>, second |-> <<>>]

ResolveIdle ==
    /\ res_in = [links |-> <<>>, base_url |-> Url("http", "h", <<"", "">>, "", "")]
    /\ res_out = NoCalls

\* resolve_links(links, base_url) on the stored list
ResolveLinks ==
    /\ res_out.calls = 0
    /\ res_out' = [calls |-> 1,
                   links |-> links_after_resolve(res_in.links, res_in.base_url),
                   first |-> resolve_links(res_in.links, res_in.base_url),
                   second |-> <<>>]
    /\ UNCHANGED <<res_in, wrapVars, adapterVars, composeVars, createVars, confVars, registerVars, landingVars>>

\* resolve_links(resolve_links(links, base_url), base_url): a second
\* response path resolves the list the first call returned
ResolveLinksAgain ==
    /\ res_out.calls = 1
    /\ res_out' = [res_out EXCEPT
                      !.calls = 2,
                      !.second = resolve_links(res_out.first, res_in.base_url)]
    /\ UNCHANGED <<res_in, wrapVars, adapterVars, composeVars, createVars, confVars, registerVars, landingVars>>

(***************************************************************************)
(* types/links.py : the generated (inferred) links                         *)
(***************************************************************************)
MimeTypes == [json |-> "application/json", geojson |-> "application/geo+json"]

Link(rel, type, href) == [rel |-> rel, type |-> type, href |-> href]

\* a relative reference made of path segments only
RelativePath(path) == Url("", "", path, "", "")

\* f"catalogs/{catalog_id}": a catalog id is kept as its "/"-separated
\* segments, so that a nested catalog is <<"a", "catalogs", "b">>
CatalogPath(catalog_id) == <<"catalogs">> \o catalog_id

\* f"catalogs/{catalog_id}/collections/{collection_id}"
CollectionPath(catalog_id, collection_id) ==
    CatalogPath(catalog_id) \o <<"collections", collection_id>>

\* BaseLinks.root
BaseLinks_root(self) ==
    Link("root", MimeTypes.json,
         urljoin(self.base_url, RelativePath(CatalogPath(self.catalog_id))))

\* CollectionLinks.self
CollectionLinks_self(self) ==
    Link("self", MimeTypes.json,
         urljoin(self.base_url,
                 RelativePath(CollectionPath(self.catalog_id, self.collection_id))))

\* Faulty variant: the parent of a collection is the service root.
CollectionLinks_parent_is_base(self) ==
    Link("parent", MimeTypes.json, self.base_url)

\* CollectionLinks.parent
CollectionLinks_parent(self) ==
    Link("parent", MimeTypes.json,
         urljoin(self.base_url, RelativePath(CatalogPath(self.catalog_id))))

\* CollectionLinks.items
CollectionLinks_items(self) ==
    Link("items", MimeTypes.geojson,
         urljoin(self.base_url,
                 RelativePath(CollectionPath(self.catalog_id, self.collection_id)
                                 \o <<"items">>)))

\* CollectionLinks.create_links
CollectionLinks_create_links(self) ==
    << CollectionLinks_self(self), CollectionLinks_parent(self),
       CollectionLinks_items(self), BaseLinks_root(self) >>

\* BaseCatalogLinks.root
BaseCatalogLinks_root(self) == Link("root", MimeTypes.json, self.base_url)

\* CatalogLinks.self
CatalogLinks_self(self) ==
    Link("self", MimeTypes.json,
         urljoin(self.base_url, RelativePath(CatalogPath(self.catalog_id))))

\* CatalogLinks.parent
CatalogLinks_parent(self) == Link("parent", MimeTypes.json, self.base_url)

\* CatalogLinks.create_links
CatalogLinks_create_links(self) ==
    << CatalogLinks_self(self), CatalogLinks_parent(self),
       BaseCatalogLinks_root(self) >>

\* ItemLinks.self
ItemLinks_self(self) ==
    Link("self", MimeTypes.geojson,
         urljoin(self.base_url,
                 RelativePath(CollectionPath(self.catalog_id, self.collection_id)
                                 \o <<"items", self.item_id>>)))

\* ItemLinks.parent
ItemLinks_parent(self) ==
    Link("parent", MimeTypes.json,
         urljoin(self.base_url,
                 RelativePath(CollectionPath(self.catalog_id, self.collection_id))))

\* ItemLinks.collection
ItemLinks_collection(self) ==
    Link("collection", MimeTypes.json,
         urljoin(self.base_url,
                 RelativePath(CollectionPath(self.catalog_id, self.collection_id))))

\* Faulty variant: the items relation in place of the collection relation.
ItemLinks_create_links_as_collection(self) ==
    << ItemLinks_self(self), ItemLinks_parent(self),
       CollectionLinks_items(self), BaseLinks_root(self) >>

\* ItemLinks.create_links
ItemLinks_create_links(self) ==
    << ItemLinks_self(self), ItemLinks_parent(self),
       ItemLinks_collection(self), BaseLinks_root(self) >>

\* create_links of the class that goes with the kind of resource
create_links(kind, self) ==
    CASE kind = "catalog" -> CatalogLinks_create_links(self)
      [] kind = "collection" -> CollectionLinks_create_links(self)
      [] kind = "item" -> ItemLinks_create_links(self)

\* Faulty variant: the base URL is read back from a persisted root link.
links_object_from_persisted(resource, base_url) ==
    [catalog_id |-> resource.catalog_id,
     collection_id |-> resource.collection_id,
     item_id |-> resource.item_id,
     base_url |-> IF \E i \in 1..Len(resource.links) : resource.links[i].rel = "root"
                  THEN (CHOOSE l \in {resource.links[i] : i \in 1..Len(resource.links)} :
                            l.rel = "root").href
                  ELSE base_url]

\* The attributes of a links object (BaseLinks: catalog_id, collection_id,
\* base_url; BaseCatalogLinks: base_url, catalog_id; ItemLinks adds item_id):
\* the ids of the resource and the base URL, and no field for stored links.
links_object(resource, base_url) ==
    [catalog_id |-> resource.catalog_id,
     collection_id |-> resource.collection_id,
     item_id |-> resource.item_id,
     base_url |-> base_url]

Kinds == {"catalog", "collection", "item"}
CatalogIds == { <<"a">>, <<"a", "catalogs", "b">> }
CollectionIds == {"c", "d"}
ItemIds == {"i", "j"}

\* link lists a stored resource carries
PersistedLists ==
    { <<>>,
      << [rel |-> "root", href |-> Url("http", "old", <<"", "root">>, "", "")] >>,
      << [rel |-> "license", href |-> Url("", "", <<"license.txt">>, "", "")],
         [rel |-> "self", href |-> Url("http", "old", <<"", "self">>, "", "")] >> }

Resources ==
    [kind : Kinds, catalog_id : CatalogIds, collection_id : CollectionIds,
     item_id : ItemIds, links : PersistedLists]

ResourceSlots == {1, 2}

NotCreated == <<>>

CreateIdle ==
    /\ cl_in = [base_url |-> Url("http", "h", <<"", "">>, "", ""),
                resources |-> [i \in ResourceSlots |->
                                  [kind |-> "catalog", catalog_id |-> <<"a">>,
                                   collection_id |-> "c", item_id |-> "i",
                                   links |-> <<>>]]]
    /\ cl_out = [i \in ResourceSlots |-> NotCreated]

\* XLinks(...).create_links() for one stored resource
CreateLinks(i) ==
    /\ cl_out[i] = NotCreated
    /\ cl_out' = [cl_out EXCEPT ![i] =
                     create_links(cl_in.resources[i].kind,
                                  links_object(cl_in.resources[i], cl_in.base_url))]
    /\ UNCHANGED <<cl_in, wrapVars, adapterVars, composeVars, resolveVars, confVars, registerVars, landingVars>>

(***************************************************************************)
(* types/core.py : the conformance list of the core client                 *)
(***************************************************************************)
Range(seq) == {seq[i] : i \in 1..Len(seq)}

\* types/conformance.py, as imported at startup: the base identifiers
BaseClasses == <<"core", "oaf">>

\* An extension object. TransactionExtension has the attribute
\* conformance_classes, a list of one identifier; an ApiExtension that
\* declares none has no such attribute.
ExtensionKinds == {"TransactionExtension", "PlainExtension"}

Extension(kind) ==
    IF kind = "TransactionExtension"
    THEN [name |-> kind, has_conformance |-> TRUE, conformance_classes |-> <<"tx">>]
    ELSE [name |-> kind, has_conformance |-> FALSE, conformance_classes |-> <<>>]

ConformanceIds == {"core", "oaf", "tx"}

\* getattr(extension, "conformance_classes", [])
extension_classes(extension) ==
    IF extension.has_conformance THEN extension.conformance_classes ELSE <<>>

\* for extension in self.extensions: list.extend(extension_classes)
RECURSIVE ExtendWithExtensions(_, _)
ExtendWithExtensions(list, extensions) ==
    IF extensions = <<>>
    THEN list
    ELSE ExtendWithExtensions(list \o extension_classes(Head(extensions)),
                              Tail(extensions))

\* list(set(xs)): the elements of xs once each, in the iteration order of a
\* set of strings, which follows the string hashes of the running process
list_of_set(hash_order, xs) ==
    SelectSeq(hash_order, LAMBDA id : id \in Range(xs))

\* The orders in which a process can iterate over a set of identifiers:
\* str hashes are salted anew at each interpreter start.
HashOrders ==
    {o \in [1..Cardinality(ConformanceIds) -> ConformanceIds] :
        Range(o) = ConformanceIds}

\* Faulty variant: the extended list is returned as it is.
conformance_classes_no_set(proc) ==
    ExtendWithExtensions(proc.BASE_CONFORMANCE_CLASSES, proc.extensions)

\* BaseCoreClient.conformance_classes (AsyncBaseCoreClient's is the same);
\* self.base_conformance_classes is the module-level list itself
conformance_classes(proc) ==
    LET base_conformance_classes ==
            ExtendWithExtensions(proc.BASE_CONFORMANCE_CLASSES, proc.extensions)
    IN  list_of_set(proc.hash_order, base_conformance_classes)

\* BaseCoreClient.list_conformance_classes: base_conformance is the
\* module-level list, extended in place and returned
list_conformance_classes(proc) ==
    ExtendWithExtensions(proc.BASE_CONFORMANCE_CLASSES, proc.extensions)

MaxRegistered == 2
MaxListCalls == 2

Procs == {1, 2}

Process(extension_kinds, hash_order) ==
    [BASE_CONFORMANCE_CLASSES |-> BaseClasses,
     extensions |-> [i \in 1..Len(extension_kinds) |-> Extension(extension_kinds[i])],
     hash_order |-> hash_order,
     last_op |-> None,
     out |-> <<>>,
     list_returns |-> <<>>]

ConfIdle ==
    /\ conf_in = [extensions |-> <<>>]
    /\ procs = [p \in Procs |-> Process(<<>>, <<"core", "oaf", "tx">>)]

\* client.conformance_classes()
ConformanceClasses(p) ==
    /\ procs' = [procs EXCEPT ![p].last_op = "conformance_classes",
                              ![p].out = conformance_classes(procs[p])]
    /\ UNCHANGED <<conf_in, wrapVars, adapterVars, composeVars, resolveVars, createVars, registerVars, landingVars>>

\* client.list_conformance_classes()
ListConformanceClasses(p) ==
    /\ Len(procs[p].list_returns) < MaxListCalls
    /\ LET base_conformance == list_conformance_classes(procs[p])
       IN  procs' = [procs EXCEPT
                        ![p].BASE_CONFORMANCE_CLASSES = base_conformance,
                        ![p].last_op = "list_conformance_classes",
                        ![p].out = base_conformance,
                        ![p].list_returns = Append(@, base_conformance)]
    /\ UNCHANGED <<conf_in, wrapVars, adapterVars, composeVars, resolveVars, createVars, registerVars, landingVars>>

\* GET /conformance: Conformance(conformsTo=self.conformance_classes())
Conformance(p) ==
    /\ procs' = [procs EXCEPT ![p].last_op = "conformance",
                              ![p].out = conformance_classes(procs[p])]
    /\ UNCHANGED <<conf_in, wrapVars, adapterVars, composeVars, resolveVars, createVars, registerVars, landingVars>>

\* GET /: the conformsTo of the landing page
LandingPage(p) ==
    /\ procs' = [procs EXCEPT ![p].last_op = "landing_page",
                              ![p].out = conformance_classes(procs[p])]
    /\ UNCHANGED <<conf_in, wrapVars, adapterVars, composeVars, resolveVars, createVars, registerVars, landingVars>>

(***************************************************************************)
(* extensions : registering an extension's routes with the application     *)
(***************************************************************************)
\* What issubclass says of each request model class handed to
\* create_async_endpoint by the extension
RequestModelKind(request_model) ==
    IF request_model = "stac_types.Catalog" THEN "dict" ELSE "APIRequest"

\* The attributes of the request model classes (models.py CatalogUri,
\* CollectionUri, ItemUri; transaction.py PostItem, PostCatalog,
\* PutCollection, PostNewCollection, PutItem): those declared with Path(...)
\* and those declared with Body(...)
RequestModelFields(request_model) ==
    CASE request_model = "CatalogUri" ->
            [path |-> {"catalog_path"}, body |-> {}]
      [] request_model = "CollectionUri" ->
            [path |-> {"catalog_path", "collection_id"}, body |-> {}]
      [] request_model = "ItemUri" ->
            [path |-> {"catalog_path", "collection_id", "item_id"}, body |-> {}]
      [] request_model = "PostItem" ->
            [path |-> {"catalog_path", "collection_id"}, body |-> {"item"}]
      [] request_model = "PostCatalog" ->
            [path |-> {"catalog_path"}, body |-> {"catalog"}]
      [] request_model = "PutCollection" ->
            [path |-> {"catalog_path", "collection_id"}, body |-> {"collection"}]
      [] request_model = "PostNewCollection" ->
            [path |-> {"catalog_path"}, body |-> {"collection"}]
      [] request_model = "PutItem" ->
            [path |-> {"catalog_path", "collection_id", "item_id"},
             body |-> {"item"}]
      [] OTHER -> [path |-> {}, body |-> {}]

\* The {placeholders} of the path templates of transaction.py
PathPlaceholders(path) ==
    CASE path = "/catalogs" -> {}
      [] path = "/catalogs/{catalog_id}" -> {"catalog_id"}
      [] path = "/catalogs/{catalog_id}/collections" -> {"catalog_id"}
      [] path = "/catalogs/{catalog_id}/collections/{collection_id}" ->
            {"catalog_id", "collection_id"}
      [] path = "/catalogs/{catalog_id}/collections/{collection_id}/items" ->
            {"catalog_id", "collection_id"}
      [] path = "/catalogs/{catalog_id}/collections/{collection_id}/items/{item_id}" ->
            {"catalog_id", "collection_id", "item_id"}

Undeclared == [declared |-> FALSE, parameters |-> {}]
Declared(parameters) == [declared |-> TRUE, parameters |-> parameters]

\* types/core.py : the abstract methods of BaseTransactionsClient ("sync")
\* and of AsyncBaseTransactionsClient ("async") with their named parameters
DeclaredHandler(family, handler) ==
    IF family = "sync"
    THEN CASE handler = "create_item" -> Declared({"collection_id", "item"})
           [] handler = "update_item" ->
                 Declared({"catalog_id", "collection_id", "item_id", "item"})
           [] handler = "delete_item" ->
                 Declared({"item_id", "collection_id", "catalog_id"})
           [] handler = "create_collection" ->
                 Declared({"catalog_id", "collection"})
           [] handler = "create_catalog" -> Declared({"catalog"})
           [] handler = "update_collection" ->
                 Declared({"collection_id", "collection"})
           [] handler = "delete_collection" ->
                 Declared({"catalog_id", "collection_id"})
           [] OTHER -> Undeclared
    ELSE CASE handler = "create_item" -> Declared({"collection_id", "item"})
           [] handler = "update_item" ->
                 Declared({"catalog_id", "collection_id", "item_id", "item"})
           [] handler = "delete_item" ->
                 Declared({"item_id", "collection_id", "catalog_id"})
           [] handler = "create_collection" -> Declared({"collection"})
           [] handler = "update_collection" ->
                 Declared({"catalog_id", "collection_id", "collection"})
           [] handler = "delete_collection" ->
                 Declared({"catalog_id", "collection_id"})
           [] OTHER -> Undeclared

\* A client object of the extension: a subclass of the synchronous or of the
\* asynchronous interface that implements the declared methods, and either
\* nothing more or also the other handlers the extension looks up.
Clients == [family : {"sync", "async"}, complete : BOOLEAN]

\* hasattr(self.client, handler)
ClientHas(client, handler) ==
    client.complete \/ DeclaredHandler(client.family, handler).declared

\* A client method: a coroutine function on the asynchronous clients
ClientMethod(client, handler) ==
    [is_coroutine |-> client.family = "async", threadpool |-> FALSE]

Route(name, method, path, client, handler, request_model) ==
    [name |-> name, method |-> method, path |-> path, handler |-> handler,
     client |-> client,
     request_model |-> request_model,
     endpoint |-> create_async_endpoint(ClientMethod(client, handler),
                                        RequestModelKind(request_model))]

\* TransactionExtension.register: the nine register_* calls, in call order
TransactionRoutes(client) ==
    << Route("Create Item", "POST",
             "/catalogs/{catalog_id}/collections/{collection_id}/items",
             client, "create_item", "PostItem"),
       Route("Update Item", "PUT",
             "/catalogs/{catalog_id}/collections/{collection_id}/items/{item_id}",
             client, "update_item", "PutItem"),
       Route("Delete Item", "DELETE",
             "/catalogs/{catalog_id}/collections/{collection_id}/items/{item_id}",
             client, "delete_item", "ItemUri"),
       Route("Create Collection", "POST", "/catalogs/{catalog_id}/collections",
             client, "create_collection", "PostNewCollection"),
       Route("Create Catalog", "POST", "/catalogs",
             client, "create_catalog", "stac_types.Catalog"),
       Route("Update Collection", "PUT",
             "/catalogs/{catalog_id}/collections/{collection_id}",
             client, "update_collection", "PutCollection"),
       Route("Update Catalog", "PUT", "/catalogs/{catalog_id}",
             client, "update_catalog", "PostCatalog"),
       Route("Delete Collection", "DELETE",
             "/catalogs/{catalog_id}/collections/{collection_id}",
             client, "delete_collection", "CollectionUri"),
       Route("Delete Catalog", "DELETE", "/catalogs/{catalog_id}",
             client, "delete_catalog", "CatalogUri") >>

\* The register_* calls that complete: self.client.<handler> raises
\* AttributeError at the first handler the client does not have, and the
\* calls after it are not made
RECURSIVE RegisteredBeforeError(_, _)
RegisteredBeforeError(client, routes) ==
    IF routes = <<>> \/ ~ClientHas(client, Head(routes).handler)
    THEN <<>>
    ELSE <<Head(routes)>> \o RegisteredBeforeError(client, Tail(routes))

\* router.add_api_route: the route is appended to the router's list under
\* router.prefix + path; nothing looks at the routes already there
RECURSIVE add_api_routes(_, _, _)
add_api_routes(router_routes, prefix, routes) ==
    IF routes = <<>>
    THEN router_routes
    ELSE add_api_routes(
            Append(router_routes, [Head(routes) EXCEPT !.path = <<prefix, @>>]),
            prefix, Tail(routes))

\* app.include_router(router): every route of the router, as it is now, is
\* appended to the application's route table
include_router(app_routes, router_routes) == app_routes \o router_routes

\* The extension instances of a deployment: a TransactionExtension over
\* each client. (third_party/collectionSearch cannot be imported: it asks
\* types/core.py for CollectionSearchClient and AsyncCollectionSearchClient,
\* which core.py does not define.)
ExtensionInstances == [kind : {"TransactionExtension"}, client : Clients]

RouterPrefixes == {"", "/api"}

MaxRegistrations == 3

RegisterIdle ==
    /\ app = [router_prefix |-> "", routes |-> <<>>, registrations |-> 0,
              raised |-> None]
    /\ routers = [e \in ExtensionInstances |-> <<>>]

\* extension.register(app)
Register(extension) ==
    /\ app.registrations < MaxRegistrations
    /\ LET routes == TransactionRoutes(extension.client)
           added == RegisteredBeforeError(extension.client, routes)
           router == add_api_routes(routers[extension], app.router_prefix, added)
       IN  /\ routers' = [routers EXCEPT ![extension] = router]
           /\ IF Len(added) < Len(routes)
              THEN app' = [app EXCEPT !.raised = "AttributeError",
                                      !.registrations = @ + 1]
              ELSE app' = [app EXCEPT !.routes = include_router(@, router),
                                      !.raised = None,
                                      !.registrations = @ + 1]
    /\ UNCHANGED <<wrapVars, adapterVars, composeVars, resolveVars, createVars, confVars, landingVars>>

(***************************************************************************)
(* types/core.py : the landing page of the two core clients                *)
(***************************************************************************)
LandingLink(rel, type, title, href, method) ==
    [rel |-> rel, type |-> type, title |-> title, href |-> href, method |-> method]

\* str(request.base_url): the root of the application
RequestBaseUrl == Url("http", "h", <<"", "">>, "", "")

\* types/requests.py get_base_url(request): request.base_url, followed by
\* the router prefix when the application has one
get_base_url(request) ==
    IF request.router_prefix = ""
    THEN RequestBaseUrl
    ELSE Url("http", "h", <<"", request.router_prefix, "">>, "", "")

\* LandingPageMixin._landing_page: the links of the new landing page
landing_page_links(base_url) ==
    << LandingLink("self", MimeTypes.json, None, base_url, None),
       LandingLink("root", MimeTypes.json, None, base_url, None),
       LandingLink("data", MimeTypes.json, None,
                   urljoin(base_url, RelativePath(<<"collections">>)), None),
       LandingLink("conformance", MimeTypes.json,
                   "STAC/OGC conformance classes implemented by this server",
                   urljoin(base_url, RelativePath(<<"conformance">>)), None),
       LandingLink("search", MimeTypes.geojson, "STAC search",
                   urljoin(base_url, RelativePath(<<"search">>)), "GET"),
       LandingLink("search", MimeTypes.geojson, "STAC search",
                   urljoin(base_url, RelativePath(<<"search">>)), "POST") >>

\* the Queryables link, added when FilterExtension is enabled
queryables_links(base_url, filter_enabled) ==
    IF filter_enabled
    THEN << LandingLink("http://www.opengis.net/def/rel/ogc/1.0/queryables",
                        "application/schema+json", "Queryables",
                        urljoin(base_url, RelativePath(<<"queryables">>)), "GET") >>
    ELSE <<>>

\* one child link per listed resource: title is its id (no title stored),
\* href is urljoin(base_url, f"collections/{id}")
child_links(base_url, ids) ==
    [i \in 1..Len(ids) |->
        LandingLink("child", MimeTypes.json, ids[i],
                    urljoin(base_url, RelativePath(<<"collections", ids[i]>>)),
                    None)]

\* the service-desc and service-doc links, joined against the given URL
service_links(url) ==
    << LandingLink("service-desc",
                   "application/vnd.oai.openapi+json;version=3.0",
                   "OpenAPI service description",
                   urljoin(url, RelativePath(<<"openapi.json">>)), None),
       LandingLink("service-doc", "text/html",
                   "OpenAPI service documentation",
                   urljoin(url, RelativePath(<<"docs">>)), None) >>

\* BaseCoreClient.landing_page: children from all_collections, service
\* links joined against str(request.base_url)
landing_page(request, state) ==
    LET base_url == get_base_url(request)
    IN  landing_page_links(base_url)
           \o queryables_links(base_url, request.filter_enabled)
           \o child_links(base_url, state.collections)
           \o service_links(RequestBaseUrl)

\* AsyncBaseCoreClient.landing_page: children from all_catalogs, service
\* links joined against base_url
landing_page_async(request, state) ==
    LET base_url == get_base_url(request)
    IN  landing_page_links(base_url)
           \o queryables_links(base_url, request.filter_enabled)
           \o child_links(base_url, state.catalogs)
           \o service_links(base_url)

MaxListed == 2

LandingRequests == [router_prefix : {"", "api"}, filter_enabled : BOOLEAN]

CatalogStates ==
    [collections : SeqsUpTo({"c", "d"}, MaxListed),
     catalogs : SeqsUpTo({"a", "c"}, MaxListed)]

NoLandingPage == <<>>

LandingIdle ==
    /\ lp_in = [request |-> [router_prefix |-> "", filter_enabled |-> FALSE],
                state |-> [collections |-> <<>>, catalogs |-> <<>>]]
    /\ lp_out = [sync |-> NoLandingPage, async |-> NoLandingPage]

\* GET / served by a synchronous core client
LandingPageSync ==
    /\ lp_out.sync = NoLandingPage
    /\ lp_out' = [lp_out EXCEPT !.sync = landing_page(lp_in.request, lp_in.state)]
    /\ UNCHANGED <<lp_in, wrapVars, adapterVars, composeVars, resolveVars,
                   createVars, confVars, registerVars>>

\* GET / served by an asynchronous core client
LandingPageAsync ==
    /\ lp_out.async = NoLandingPage
    /\ lp_out' = [lp_out EXCEPT !.async =
                     landing_page_async(lp_in.request, lp_in.state)]
    /\ UNCHANGED <<lp_in, wrapVars, adapterVars, composeVars, resolveVars,
                   createVars, confVars, registerVars>>

(***************************************************************************)
(* Specifications                                                          *)
(***************************************************************************)
WrapInputs == [resp : Results, verb : Verbs, url_path : Paths]

WrapIdle == /\ wrap_in = [resp |-> None, verb |-> "GET", url_path |-> <<"", "">>]
            /\ wrap_out = NoResponse

AdapterIdle == /\ endpoint = NoEndpoint
               /\ reqs = [r \in Requests |-> IdleRequest]

ComposeIdle ==
    /\ compose_in = [base_model |-> "dict", extensions |-> <<>>, mixins |-> <<>>]
    /\ compose_out = NotCalled

RestIdle ==
    ResolveIdle /\ CreateIdle /\ ConfIdle /\ RegisterIdle /\ LandingIdle

\* SpecWrap: _wrap_response applied to every (resp, verb, url)
InitWrap ==
    /\ wrap_in \in WrapInputs
    /\ wrap_out = NoResponse
    /\ AdapterIdle
    /\ ComposeIdle
    /\ RestIdle

WrapResponse ==
    /\ wrap_out = NoResponse
    /\ wrap_out' = wrap_response(wrap_in.resp, wrap_in.verb, wrap_in.url_path)
    /\ UNCHANGED <<wrap_in, adapterVars, composeVars, restVars>>

NextWrap == WrapResponse

SpecWrap == InitWrap /\ [][NextWrap]_vars

\* Spec: requests through one endpoint built by create_async_endpoint
Init ==
    /\ WrapIdle
    /\ AdapterIdle
    /\ ComposeIdle
    /\ RestIdle

Next ==
    \/ CreateAsyncEndpoint
    \/ \E r \in Requests :
          \/ Receive(r)
          \/ ResolveDependencies(r)
          \/ InvokeHandler(r)
          \/ Disconnect(r)
          \/ WorkerCompletes(r)
          \/ ResumeEndpoint(r)
          \/ CoroutineReturns(r)

Spec == Init /\ [][Next]_vars

\* SpecCompose: one composition call on every combination of inputs
InitCompose ==
    /\ compose_in \in [base_model : ModelIds,
                       extensions : SeqsUpTo(ModelIds \cup {None}, MaxExtensions),
                       mixins : SeqsUpTo(ModelIds, MaxMixins)]
    /\ compose_out = NotCalled
    /\ WrapIdle
    /\ AdapterIdle
    /\ RestIdle

NextCompose ==
    \/ CreateRequestModel
    \/ CreateMixedRequestModel
    \/ CreateMixedRequestModelOtherShape

SpecCompose == InitCompose /\ [][NextCompose]_vars

\* SpecResolve: resolve_links, once and twice, on every stored list
InitResolve ==
    /\ res_in \in [links : SeqsUpTo(StoredLinks, MaxLinks), base_url : BaseUrls]
    /\ res_out = NoCalls
    /\ WrapIdle
    /\ AdapterIdle
    /\ ComposeIdle
    /\ CreateIdle
    /\ ConfIdle
    /\ RegisterIdle
    /\ LandingIdle

NextResolve ==
    \/ ResolveLinks
    \/ ResolveLinksAgain

SpecResolve == InitResolve /\ [][NextResolve]_vars

\* SpecCreate: create_links for two stored resources
InitCreate ==
    /\ cl_in \in [base_url : BaseUrls, resources : [ResourceSlots -> Resources]]
    /\ cl_out = [i \in ResourceSlots |-> NotCreated]
    /\ WrapIdle
    /\ AdapterIdle
    /\ ComposeIdle
    /\ ResolveIdle
    /\ ConfIdle
    /\ RegisterIdle
    /\ LandingIdle

NextCreate == \E i \in ResourceSlots : CreateLinks(i)

SpecCreate == InitCreate /\ [][NextCreate]_vars

\* SpecConformance: two runs of the process with the same configuration
InitConformance ==
    /\ conf_in \in [extensions : SeqsUpTo(ExtensionKinds, MaxRegistered)]
    /\ procs \in {[p \in Procs |-> Process(conf_in.extensions, order[p])] :
                     order \in [Procs -> HashOrders]}
    /\ WrapIdle
    /\ AdapterIdle
    /\ ComposeIdle
    /\ ResolveIdle
    /\ CreateIdle
    /\ RegisterIdle
    /\ LandingIdle

NextConformance ==
    \E p \in Procs :
        \/ ConformanceClasses(p)
        \/ ListConformanceClasses(p)
        \/ Conformance(p)
        \/ LandingPage(p)

SpecConformance == InitConformance /\ [][NextConformance]_vars

\* SpecRegister: extensions registered with one application at startup
InitRegister ==
    /\ app \in [router_prefix : RouterPrefixes, routes : {<<>>},
                registrations : {0}, raised : {None}]
    /\ routers = [e \in ExtensionInstances |-> <<>>]
    /\ WrapIdle
    /\ AdapterIdle
    /\ ComposeIdle
    /\ ResolveIdle
    /\ CreateIdle
    /\ ConfIdle
    /\ LandingIdle

NextRegister == \E extension \in ExtensionInstances : Register(extension)

SpecRegister == InitRegister /\ [][NextRegister]_vars

\* SpecLanding: the same request and catalog state served by a synchronous
\* and by an asynchronous core client
InitLanding ==
    /\ lp_in \in [request : LandingRequests, state : CatalogStates]
    /\ lp_out = [sync |-> NoLandingPage, async |-> NoLandingPage]
    /\ WrapIdle
    /\ AdapterIdle
    /\ ComposeIdle
    /\ ResolveIdle
    /\ CreateIdle
    /\ ConfIdle
    /\ RegisterIdle

NextLanding ==
    \/ LandingPageSync
    \/ LandingPageAsync

SpecLanding == InitLanding /\ [][NextLanding]_vars

(***************************************************************************)
(* Properties of _wrap_response (SpecWrap)                                 *)
(***************************************************************************)
Wrapped == wrap_out # NoResponse

\* a path "/catalogs/<c>..." whose catalog <c> is in the configured allow-list
AllowListedCatalogPath(url_path) ==
    /\ Len(url_path) >= 3
    /\ url_path[1] = "" /\ url_path[2] = "catalogs"
    /\ url_path[3] \in CACHE_CONTROL_CATALOGS_LIST

\* C1: for every method and path, a None handler result gives status 204,
\* an empty body and the cache directive "max-age=0".
C1_NoneIsNoContent ==
    (Wrapped /\ wrap_in.resp = None) =>
        /\ wrap_out.status_code = 204
        /\ wrap_out.body = <<>>
        /\ wrap_out.cache_control = "max-age=0"

\* C1 witness: a None result on a GET of an allow-listed catalog path.
C1_Witness ==
    /\ Wrapped
    /\ wrap_in.resp = None
    /\ wrap_in.verb = "GET"
    /\ AllowListedCatalogPath(wrap_in.url_path)

\* C2: on a GET, a non-None result carries the shared directive when the path
\* is "/" or an allow-listed catalog path, and "max-age=0" on any other path.
C2_SharedDirectiveOnGet ==
    (Wrapped /\ wrap_in.resp # None /\ wrap_in.verb = "GET") =>
        /\ wrap_out.body = <<wrap_in.resp>>
        /\ IF wrap_in.url_path = <<"", "">> \/ AllowListedCatalogPath(wrap_in.url_path)
           THEN wrap_out.cache_control = CACHE_CONTROL_HEADERS
           ELSE wrap_out.cache_control = "max-age=0"

\* C2 witness: a GET of a catalog path outside the allow-list got a payload.
C2_Witness ==
    /\ Wrapped
    /\ wrap_in.resp # None
    /\ wrap_in.verb = "GET"
    /\ wrap_in.url_path = <<"", "catalogs", "b", "collections">>
    /\ wrap_out.cache_control = "max-age=0"

(***************************************************************************)
(* Properties of the endpoint life cycle (Spec)                            *)
(***************************************************************************)
HandlerStarted(r) == reqs[r].runs_on # None

\* C7: a handler that is not a coroutine function always runs on the thread
\* pool and never on the event loop; a coroutine handler runs on the event
\* loop and never on the thread pool.
C7_SyncOnWorkerAsyncInPlace ==
    \A r \in Requests :
        HandlerStarted(r) =>
            IF endpoint.handler.is_coroutine
            THEN reqs[r].runs_on = "event_loop"
            ELSE reqs[r].runs_on = "threadpool"

\* C7 witness: a non-coroutine handler is in flight on the thread pool.
C7_Witness ==
    \E r \in Requests :
        /\ reqs[r].pc = "awaiting"
        /\ ~endpoint.handler.is_coroutine
        /\ reqs[r].runs_on = "threadpool"

\* C8: a request without bearer credential is never rejected; its context is
\* {X-Workspaces: [], X-Authorized: "unauthorized"} and that is the context
\* the handler is called with.
C8_NoCredentialIsUnauthorizedContext ==
    \A r \in Requests :
        (reqs[r].pc \notin {"idle", "deps"} /\ reqs[r].authorization = None) =>
            /\ reqs[r].pc # "error"
            /\ reqs[r].headers =
                   [XWorkspaces |-> <<>>, XAuthorized |-> "unauthorized"]
            /\ HandlerStarted(r) => reqs[r].call_headers = reqs[r].headers

\* C8 witness: the handler was called for a request without credential.
C8_Witness ==
    \E r \in Requests :
        /\ reqs[r].authorization = None
        /\ reqs[r].pc = "responded"
        /\ reqs[r].call_headers.XAuthorized = "unauthorized"

ExchangeFailed(r) ==
    /\ reqs[r].authorization # None
    /\ reqs[r].idp = [ok |-> FALSE, access_token |-> None]

\* C9: when a credential is present and the token exchange fails, the
\* exception propagates: the handler is never called and no response (204 or
\* payload) is built for the request.
C9_ExchangeFailurePropagates ==
    \A r \in Requests :
        ExchangeFailed(r) =>
            /\ reqs[r].pc = "error"
            /\ reqs[r].error = "Exception"
            /\ ~HandlerStarted(r)
            /\ reqs[r].response = NoResponse
            /\ reqs[r].responses = 0

\* C9 witness: a request with a credential whose exchange failed.
C9_Witness ==
    \E r \in Requests : ExchangeFailed(r) /\ reqs[r].pc = "error"

ExchangeSucceeded(r) ==
    /\ reqs[r].authorization # None
    /\ reqs[r].idp.ok
    /\ reqs[r].idp.access_token \in Tokens

\* C10: a context handed to a handler is "authorized" exactly when a
\* credential was presented and exchanged; then X-Workspaces is the
\* workspaces claim of the exchanged token ([] without the claim), taken
\* whether or not the signature verifies; an "unauthorized" context has an
\* empty X-Workspaces.
C10_ContextMatchesExchange ==
    \A r \in Requests :
        /\ ExchangeSucceeded(r) => reqs[r].pc # "error"
        /\ HandlerStarted(r) =>
              /\ reqs[r].call_headers.XAuthorized \in {"authorized", "unauthorized"}
              /\ (reqs[r].call_headers.XAuthorized = "authorized")
                     <=> ExchangeSucceeded(r)
              /\ reqs[r].call_headers.XAuthorized = "authorized" =>
                     reqs[r].call_headers.XWorkspaces =
                        IF "workspaces" \in DOMAIN TokenClaims(reqs[r].idp.access_token)
                        THEN TokenClaims(reqs[r].idp.access_token).workspaces
                        ELSE <<>>
              /\ reqs[r].call_headers.XAuthorized = "unauthorized" =>
                     reqs[r].call_headers.XWorkspaces = <<>>

\* C10 witness: a handler got the workspaces of a token with a bad signature.
C10_Witness ==
    \E r \in Requests :
        /\ HandlerStarted(r)
        /\ ~SignatureValid(reqs[r].idp.access_token)
        /\ reqs[r].call_headers =
               [XWorkspaces |-> <<"w1">>, XAuthorized |-> "authorized"]

(***************************************************************************)
(* Properties of request-model composition (SpecCompose)                   *)
(***************************************************************************)
\* the inputs of the call in processing order: base, extensions, mixins
Inputs ==
    <<compose_in.base_model>>
        \o SelectSeq(compose_in.extensions, LAMBDA e : e # None)
        \o compose_in.mixins

Definers(k) == {i \in 1..Len(Inputs) : k \in DOMAIN Fields(Inputs[i])}

FirstDefiner(k) ==
    Inputs[CHOOSE i \in Definers(k) : \A j \in Definers(k) : i <= j]

LastDefiner(k) ==
    Inputs[CHOOSE i \in Definers(k) : \A j \in Definers(k) : i >= j]

InputFieldNames == UNION {DOMAIN Fields(Inputs[i]) : i \in 1..Len(Inputs)}

PayloadComposed ==
    /\ compose_out.fn = "create_request_model"
    /\ compose_out.out.raised = None
    /\ compose_out.out.kind = "BaseModel"

AttributeComposed ==
    /\ compose_out.fn = "create_request_model"
    /\ compose_out.out.raised = None
    /\ compose_out.out.kind = "APIRequest"

\* C3: in PAYLOAD mode the composed field of a name defined by several inputs
\* equals the field of the last input that defines it, verbatim: type,
\* default, required and constraints.
C3_PayloadLastWinsVerbatim ==
    PayloadComposed =>
        \A k \in DOMAIN compose_out.out.fields :
            Cardinality(Definers(k)) >= 2 =>
                compose_out.out.fields[k] = Fields(LastDefiner(k))[k]

MixedModes ==
    /\ \E i \in 1..Len(Inputs) : IsAPIRequest(Inputs[i])
    /\ \E i \in 1..Len(Inputs) : IsBaseModel(Inputs[i])

\* C5: create_request_model on inputs that hold an attribute-style and a
\* payload-style model fails with TypeError and returns no schema, whichever
\* is the base and whether the other is an extension model or a mixin.
C5_MixedModesRaise ==
    (compose_out.fn = "create_request_model" /\ MixedModes) =>
        /\ compose_out.out.raised = "TypeError"
        /\ compose_out.out.kind = None
        /\ compose_out.out.fields = NoFields

\* C5 witness: a payload base with an attribute-style mixin was rejected.
C5_Witness ==
    /\ compose_out.fn = "create_request_model"
    /\ IsBaseModel(compose_in.base_model)
    /\ Len(Inputs) = 2
    /\ Len(compose_in.mixins) = 1
    /\ IsAPIRequest(compose_in.mixins[1])
    /\ compose_out.out.raised = "TypeError"

\* C6: in PAYLOAD-mode composition (create_request_model and
\* create_mixed_request_model) every field keeps the required/optional status
\* and the default of the input that wins it.
C6_PayloadKeepsRequiredAndDefault ==
    (/\ compose_out.fn # None
     /\ compose_out.out.raised = None
     /\ \A i \in 1..Len(Inputs) : IsBaseModel(Inputs[i])) =>
        \A k \in DOMAIN compose_out.out.fields :
            /\ compose_out.out.fields[k].required = Fields(LastDefiner(k))[k].required
            /\ compose_out.out.fields[k].default = Fields(LastDefiner(k))[k].default

(***************************************************************************)
(* Properties of resolve_links (SpecResolve)                               *)
(***************************************************************************)
\* C11: resolve_links is idempotent: resolving the list a first call
\* returned, against the same base URL, returns the same list.
C11_ResolveLinksIdempotent ==
    res_out.calls = 2 => res_out.second = res_out.first

Rels(links) == [i \in 1..Len(links) |-> links[i].rel]

\* C12: the list resolve_links returns has no link with one of the eight
\* inferred relations and holds every other input link, in input order, with
\* its relation unchanged.
C12_InferredDroppedOthersKept ==
    res_out.calls >= 1 =>
        /\ \A i \in 1..Len(res_out.first) :
              res_out.first[i].rel \notin
                 {"self", "item", "parent", "collection", "root", "items",
                  "data", "child"}
        /\ Rels(res_out.first) =
              SelectSeq(Rels(res_in.links),
                        LAMBDA r : r \notin {"self", "item", "parent",
                            "collection", "root", "items", "data", "child"})

\* C12 witness: a list with an inferred and another relation was resolved.
C12_Witness ==
    /\ res_out.calls >= 1
    /\ Len(res_in.links) = 2
    /\ res_in.links[1].rel = "data"
    /\ res_in.links[2].rel = "license"
    /\ Len(res_out.first) = 1

(***************************************************************************)
(* Properties of create_links (SpecCreate)                                 *)
(***************************************************************************)
Created(i) == cl_out[i] # NotCreated

\* C13: create_links gives a fixed sequence of relations per kind of
\* resource, whatever the ids and the base URL: catalogs self, parent, root;
\* collections self, parent, items, root; items self, parent, collection,
\* root.
C13_FixedRelationsPerKind ==
    \A i \in ResourceSlots :
        Created(i) =>
            Rels(cl_out[i]) =
                CASE cl_in.resources[i].kind = "catalog" ->
                        <<"self", "parent", "root">>
                  [] cl_in.resources[i].kind = "collection" ->
                        <<"self", "parent", "items", "root">>
                  [] cl_in.resources[i].kind = "item" ->
                        <<"self", "parent", "collection", "root">>

\* C13 witness: links were generated for an item of a nested catalog and for
\* a collection.
C13_Witness ==
    /\ Created(1) /\ Created(2)
    /\ cl_in.resources[1].kind = "item"
    /\ cl_in.resources[1].catalog_id = <<"a", "catalogs", "b">>
    /\ cl_in.resources[2].kind = "collection"

SameAncestry(r1, r2) ==
    /\ r1.kind = r2.kind
    /\ r1.catalog_id = r2.catalog_id
    /\ r1.collection_id = r2.collection_id
    /\ r1.item_id = r2.item_id

\* C14: two resources with the same base URL and the same ancestry get the
\* same generated links, whatever link lists they were stored with.
C14_PersistedLinksIgnored ==
    (Created(1) /\ Created(2)
        /\ SameAncestry(cl_in.resources[1], cl_in.resources[2]))
    => cl_out[1] = cl_out[2]

\* C14 witness: links were generated for two items of the same ancestry, one
\* stored with a root link and one with none.
C14_Witness ==
    /\ Created(1) /\ Created(2)
    /\ SameAncestry(cl_in.resources[1], cl_in.resources[2])
    /\ cl_in.resources[1].kind = "item"
    /\ Len(cl_in.resources[1].links) = 1
    /\ cl_in.resources[1].links[1].rel = "root"
    /\ cl_in.resources[2].links = <<>>

(***************************************************************************)
(* Properties of the conformance list (SpecConformance)                    *)
(***************************************************************************)
NoDuplicates(seq) == \A i, j \in 1..Len(seq) : seq[i] = seq[j] => i = j

ConfiguredIds ==
    UNION {IF k = "TransactionExtension" THEN {"tx"} ELSE {} :
              k \in Range(conf_in.extensions)}

\* C15: the list conformance_classes() returns holds no identifier twice
\* and, as a set, is the base conformance classes together with the
\* identifiers of every registered extension.
C15_ConformanceIsDeduplicatedUnion ==
    \A p \in Procs :
        procs[p].last_op = "conformance_classes" =>
            /\ NoDuplicates(procs[p].out)
            /\ Range(procs[p].out) = {"core", "oaf"} \cup ConfiguredIds

\* C15 witness: conformance_classes() was called with two extensions that
\* contribute the same identifier.
C15_Witness ==
    /\ conf_in.extensions = <<"TransactionExtension", "TransactionExtension">>
    /\ procs[1].last_op = "conformance_classes"
    /\ Len(procs[1].out) = 3

\* C16: two runs of the process with the same configuration give the
\* conformance list in the same order.
C16_SameOrderAcrossRestarts ==
    (procs[1].last_op = "conformance_classes"
        /\ procs[2].last_op = "conformance_classes")
    => procs[1].out = procs[2].out

\* C17: whatever calls were made, the module-level base list and the
\* extensions' lists are as they were at startup, and
\* list_conformance_classes returned the same list each time.
C17_ConformanceStateReadOnly ==
    \A p \in Procs :
        /\ procs[p].BASE_CONFORMANCE_CLASSES = <<"core", "oaf">>
        /\ procs[p].extensions =
              [i \in 1..Len(conf_in.extensions) |-> Extension(conf_in.extensions[i])]
        /\ \A i, j \in 1..Len(procs[p].list_returns) :
              procs[p].list_returns[i] = procs[p].list_returns[j]

(***************************************************************************)
(* Properties of registration (SpecRegister)                               *)
(***************************************************************************)
\* C18: the route table never holds two routes with the same method and
\* path: a registration that would mount such a route is aborted.
C18_NoDuplicateRoutes ==
    \A i, j \in 1..Len(app.routes) :
        (app.routes[i].method = app.routes[j].method
            /\ app.routes[i].path = app.routes[j].path)
        => i = j

(***************************************************************************)
(* Properties of the endpoint life cycle, continued (Spec)                 *)
(***************************************************************************)
\* C19: when the connection drops while a handler is in flight on the
\* thread pool, the call is not cancelled: the request only goes on to the
\* worker's completion and to the end of _endpoint, and no response is
\* delivered for it.
C19_DroppedHandlerRunsToCompletion ==
    \A r \in Requests :
        reqs[r].dropped_in_flight =>
            /\ reqs[r].runs_on = "threadpool"
            /\ reqs[r].pc \in {"awaiting", "worker_done", "responded"}
            /\ ~reqs[r].delivered

\* C19 witness: a non-coroutine handler completed on the thread pool after
\* the connection had dropped, and its response was not delivered.
C19_Witness ==
    \E r \in Requests :
        /\ reqs[r].dropped_in_flight
        /\ ~endpoint.handler.is_coroutine
        /\ reqs[r].pc = "responded"
        /\ reqs[r].result = "{id}"
        /\ ~reqs[r].delivered

\* C20: the handler is called in exactly one of three shapes, decided by the
\* request model: keywords request, headers and the expanded kwargs for an
\* APIRequest; the validated object, then headers and request, for a
\* BaseModel; the unvalidated mapping, then headers and request, for any
\* other class.
C20_OneBindingShapePerModel ==
    \A r \in Requests :
        HandlerStarted(r) =>
            /\ endpoint.request_model = "APIRequest" =>
                  /\ reqs[r].call.positional = <<>>
                  /\ reqs[r].call.keywords =
                        {"request", "headers", "**request_data.kwargs()"}
            /\ endpoint.request_model = "BaseModel" =>
                  /\ reqs[r].call.positional = <<"request_data: request_model">>
                  /\ reqs[r].call.keywords = {"headers", "request"}
            /\ endpoint.request_model \notin {"APIRequest", "BaseModel"} =>
                  /\ reqs[r].call.positional = <<"request_data: Dict[str, Any]">>
                  /\ reqs[r].call.keywords = {"headers", "request"}
            /\ endpoint.shape \in {"attribute", "payload", "raw"}

\* C20 witness: a handler was called with a validated payload object.
C20_Witness ==
    \E r \in Requests :
        /\ HandlerStarted(r)
        /\ endpoint.request_model = "BaseModel"
        /\ reqs[r].call.positional = <<"request_data: request_model">>

(***************************************************************************)
(* Properties of create_mixed_request_model (SpecCompose)                  *)
(***************************************************************************)
MixedCalled == compose_out.fn = "create_mixed_request_model"

NotAllPayload == \E i \in 1..Len(Inputs) : ~IsBaseModel(Inputs[i])

\* C21: create_mixed_request_model on inputs one of which is not a
\* payload-style model fails with the composition error (the TypeError
\* create_request_model raises) and returns no schema.
C21_MixedRejectsNonPayload ==
    (MixedCalled /\ NotAllPayload) =>
        /\ compose_out.out.raised = "TypeError"
        /\ compose_out.out.kind = None
        /\ compose_out.out.fields = NoFields

\* C22: the flag alone decides the shape create_mixed_request_model returns:
\* with full the wrapper of catalog_path and the merged payload schema,
\* without it the merged payload schema alone, whose fields are those of the
\* inputs; the merged payload schema is the same under either flag.
C22_ShapeFollowsFlagOnly ==
    (MixedCalled /\ compose_out.out.raised = None) =>
        /\ compose_out.full =>
              /\ compose_out.out.kind = "APIRequest"
              /\ compose_out.out.path_fields = {"catalog_path"}
        /\ ~compose_out.full =>
              /\ compose_out.out.kind = "BaseModel"
              /\ compose_out.out.path_fields = {}
        /\ DOMAIN compose_out.out.fields = InputFieldNames
        /\ compose_out.other.raised # "NotCalled" =>
              /\ compose_out.other.raised = None
              /\ compose_out.other.fields = compose_out.out.fields
              /\ compose_out.other.kind # compose_out.out.kind

\* C22 witness: the same payload inputs were composed with full and then
\* without it.
C22_Witness ==
    /\ MixedCalled
    /\ compose_out.full
    /\ compose_out.out.raised = None
    /\ compose_out.out.kind = "APIRequest"
    /\ compose_out.other.raised = None
    /\ compose_out.other.kind = "BaseModel"
    /\ Len(Inputs) >= 2

(***************************************************************************)
(* Properties of _wrap_response, continued (SpecWrap)                      *)
(***************************************************************************)
\* C23: every response carries "max-age=0" or the shared directive, and the
\* shared directive exactly when the result is not None, the method is GET
\* and the path is "/" or lies under an allow-listed catalog.
C23_SharedDirectiveExactlyWhen ==
    Wrapped =>
        /\ wrap_out.cache_control \in {"max-age=0", "public, max-age=3600"}
        /\ wrap_out.cache_control = "public, max-age=3600"
              <=> /\ wrap_in.resp # None
                  /\ wrap_in.verb = "GET"
                  /\ \/ wrap_in.url_path = <<"", "">>
                     \/ AllowListedCatalogPath(wrap_in.url_path)

\* C23 witness: a POST to an allow-listed catalog path returned a payload
\* and got "max-age=0".
C23_Witness ==
    /\ Wrapped
    /\ wrap_in.resp # None
    /\ wrap_in.verb = "POST"
    /\ wrap_in.url_path = <<"", "catalogs", "a">>
    /\ wrap_out.cache_control = "max-age=0"

(***************************************************************************)
(* Properties of resolve_links, continued (SpecResolve)                    *)
(***************************************************************************)
\* an href that is an absolute URL: it has a scheme, or a host after "//"
IsAbsoluteUrl(href) == href.scheme # "" \/ href.netloc # ""

\* C24: a retained link whose stored href is an absolute URL comes out as
\* the join of the href's path against the base URL: with the base URL's
\* scheme and host, never the stored link's own host.
C24_AbsoluteHrefRebased ==
    res_out.calls >= 1 =>
        \A i \in 1..Len(res_in.links) :
            (res_in.links[i].rel \notin INFERRED_LINK_RELS
                /\ IsAbsoluteUrl(res_in.links[i].href))
            => /\ res_out.links[i].href =
                     urljoin(res_in.base_url, PathOnly(res_in.links[i].href))
               /\ res_out.links[i].href.scheme = res_in.base_url.scheme
               /\ res_out.links[i].href.netloc = res_in.base_url.netloc

\* C26: resolve_links leaves the caller's list as it was: every link of the
\* input has the href and relation it had before the call.
C26_InputUnchanged ==
    res_out.calls >= 1 => res_out.links = res_in.links

(***************************************************************************)
(* Properties of the endpoint life cycle: concurrent requests (Spec)       *)
(***************************************************************************)
\* C25: whatever other requests are in flight, a request's response is
\* built once, only when its own handler has completed, and from its own
\* handler result, method and path.
C25_ResponseIsRequestLocal ==
    \A r \in Requests :
        /\ reqs[r].responses <= 1
        /\ reqs[r].responses = 1 <=> reqs[r].pc = "responded"
        /\ reqs[r].pc # "responded" => reqs[r].response = NoResponse
        /\ reqs[r].pc = "responded" =>
              reqs[r].response =
                  wrap_response(reqs[r].result, reqs[r].method, reqs[r].url_path)

\* C25 witness: a request got the response of its payload while another
\* request, of another method, whose worker returned None, was still waiting
\* to be resumed.
C25_Witness ==
    \E r1, r2 \in Requests :
        /\ r1 # r2
        /\ reqs[r1].pc = "responded"
        /\ reqs[r1].runs_on = "threadpool"
        /\ reqs[r1].result = "{id}"
        /\ reqs[r2].pc = "worker_done"
        /\ reqs[r2].result = None
        /\ reqs[r2].method # reqs[r1].method

(***************************************************************************)
(* Properties of the mounted transaction routes (SpecRegister)             *)
(***************************************************************************)
\* the names _endpoint passes on from request_data.kwargs()
KwargsNames(request_model) ==
    RequestModelFields(request_model).path \cup RequestModelFields(request_model).body

\* C27: for every mounted route with an attribute request model, the
\* path-bound fields of the model are the placeholders of the path template,
\* and every name passed on to the handler is a parameter the client
\* interface declares for that handler.
C27_PathFieldsMatchTemplate ==
    \A i \in 1..Len(app.routes) :
        app.routes[i].endpoint.shape = "attribute" =>
            /\ RequestModelFields(app.routes[i].request_model).path =
                  PathPlaceholders(app.routes[i].path[2])
            /\ KwargsNames(app.routes[i].request_model) \subseteq
                  DeclaredHandler(app.routes[i].client.family,
                                  app.routes[i].handler).parameters

\* C28: a registration with a client of either family completes and mounts
\* all nine routes, also when the client implements the declared interface
\* and nothing more.
C28_DeclaredClientRegisters ==
    \A e \in ExtensionInstances :
        routers[e] # <<>> =>
            /\ Len(routers[e]) >= 9
            /\ \A k \in 1..Len(routers[e]) :
                  \E j \in 1..Len(app.routes) : app.routes[j] = routers[e][k]

(***************************************************************************)
(* Properties of the landing page (SpecLanding)                            *)
(***************************************************************************)
TransactionHandlers ==
    {"create_item", "update_item", "delete_item", "create_collection",
     "create_catalog", "update_collection", "delete_collection"}

\* C29: for the same request and the same catalog state the synchronous and
\* the asynchronous client return the same landing page links, and the two
\* families declare the same parameters for each handler.
C29_SyncAndAsyncAgree ==
    (lp_out.sync # NoLandingPage /\ lp_out.async # NoLandingPage) =>
        /\ lp_out.sync = lp_out.async
        /\ \A h \in TransactionHandlers :
              DeclaredHandler("sync", h) = DeclaredHandler("async", h)

(***************************************************************************)
(* Properties of create_links across kinds of resource (SpecCreate)        *)
(***************************************************************************)
\* the href of the generated link of a relation
HrefOf(links, rel) == (CHOOSE l \in Range(links) : l.rel = rel).href

\* C30: for the same base URL and ancestry, an item's parent href is its
\* collection href and the self href of its collection; a collection's
\* parent href is its root href and the self href of its catalog.
C30_KindsAgree ==
    \A i, j \in ResourceSlots :
        (Created(i) /\ Created(j)) =>
            LET ri == cl_in.resources[i]
                rj == cl_in.resources[j]
            IN  /\ ri.kind = "item" =>
                      HrefOf(cl_out[i], "parent") = HrefOf(cl_out[i], "collection")
                /\ (ri.kind = "item" /\ rj.kind = "collection"
                        /\ ri.catalog_id = rj.catalog_id
                        /\ ri.collection_id = rj.collection_id) =>
                      HrefOf(cl_out[i], "parent") = HrefOf(cl_out[j], "self")
                /\ ri.kind = "collection" =>
                      HrefOf(cl_out[i], "parent") = HrefOf(cl_out[i], "root")
                /\ (ri.kind = "collection" /\ rj.kind = "catalog"
                        /\ ri.catalog_id = rj.catalog_id) =>
                      HrefOf(cl_out[i], "parent") = HrefOf(cl_out[j], "self")

\* C30 witness: links were generated for a collection and for the catalog
\* that holds it, a nested one.
C30_Witness ==
    /\ Created(1) /\ Created(2)
    /\ cl_in.resources[1].kind = "collection"
    /\ cl_in.resources[2].kind = "catalog"
    /\ cl_in.resources[1].catalog_id = <<"a", "catalogs", "b">>
    /\ cl_in.resources[2].catalog_id = <<"a", "catalogs", "b">>

=============================================================================
